---- MODULE Spec2Model ----
(***************************************************************************)
(* Model of the dispatch pipeline of the T-Bank SDK (src/src/client.rs):   *)
(* Client::send attaches the bearer credential, hands the request to the   *)
(* transport, maps transport failures, captures the body, classifies the   *)
(* HTTP status and deserializes a 2xx body into InitPaymentRes             *)
(* (src/src/payment.rs).  The transport and the gateway are the            *)
(* environment: their answers are nondeterministic choices.                *)
(***************************************************************************)
EXTENDS Integers, Sequences, FiniteSets, TLC

\* ------------------------------------------------------------------------
\* Bounds
\* ------------------------------------------------------------------------

\* Number of Client::send invocations the caller issues, one after another.
MaxCalls == 2

\* ------------------------------------------------------------------------
\* JSON values and response bodies
\* ------------------------------------------------------------------------

\* A JSON value: its type, its text when a string, and its number.  A
\* number is hi * 10^9 + n with |n| < 10^9, so that values beyond 2^31 fit.
JStr(s) == [t |-> "string", s |-> s, hi |-> 0, n |-> 0]
JNum(n) == [t |-> "number", s |-> "", hi |-> 0, n |-> n]
JBig(hi, n) == [t |-> "number", s |-> "", hi |-> hi, n |-> n]
JBool(b) == [t |-> "bool", s |-> "", hi |-> 0, n |-> IF b THEN 1 ELSE 0]
JNull == [t |-> "null", s |-> "", hi |-> 0, n |-> 0]

Member(k, v) == [k |-> k, v |-> v]

\* A response body as text: either a JSON object (its members in document
\* order) or text that is not a JSON object.
ObjectBody(members) == [kind |-> "object", text |-> "", members |-> members]
TextBody(text) == [kind |-> "text", text |-> text, members |-> <<>>]

\* String::default(), the value unwrap_or_default() yields.
EmptyBody == TextBody("")

\* ------------------------------------------------------------------------
\* InitPaymentRes and its derived decoder (payment.rs, serde_json)
\* ------------------------------------------------------------------------

\* Fields of InitPaymentRes in declaration order, under their wire names:
\* rename_all = "PascalCase" turns payment_url into PaymentUrl.
ResFields ==
    << "TerminalKey", "Amount", "OrderId", "Success", "Status",
       "PaymentId", "ErrorCode", "PaymentUrl", "Message", "Details" >>

ResFieldNames == { ResFields[i] : i \in 1..Len(ResFields) }

\* payment_url: Option<Url> is the only field that may be left out.
OptionalResFields == { "PaymentUrl" }

\* u32::MAX = 4 * 10^9 + 294967295, the largest NonZeroU32.
U32MaxHi == 4
U32MaxLo == 294967295

IsZero(v) == v.hi = 0 /\ v.n = 0

\* The range of a u64 taken for that of a u32.
FitsU32Wide(v) == v.hi >= 0 /\ v.n >= 0

FitsU32(v) ==
    \/ v.hi = 0 /\ v.n >= 0
    \/ 0 < v.hi /\ v.hi < U32MaxHi /\ v.n >= 0
    \/ v.hi = U32MaxHi /\ 0 <= v.n /\ v.n <= U32MaxLo

\* Strings url::Url::parse accepts, among the ones the gateway bodies use.
AbsoluteUrls == { "https://pay.example/xyz", "https://pay.tbank.ru/new/fU1ppgqa" }

Absent == [t |-> "absent", s |-> "", hi |-> 0, n |-> 0]

FieldOk == [ok |-> TRUE, message |-> ""]
FieldErr(msg) == [ok |-> FALSE, message |-> msg]

\* Deserialize of the field's type applied to one JSON value.
DeserializeField(name, v) ==
    CASE name = "Amount" ->
            IF v.t # "number"
            THEN FieldErr("invalid type: " \o v.t \o ", expected a nonzero u32")
            ELSE IF IsZero(v)
            THEN FieldErr("invalid value: integer '0', expected a nonzero u32")
            ELSE IF ~FitsU32(v)
            THEN FieldErr("invalid value: integer out of range, expected a nonzero u32")
            ELSE FieldOk
      [] name = "Success" ->
            IF v.t = "bool" THEN FieldOk
            ELSE FieldErr("invalid type: " \o v.t \o ", expected a boolean")
      [] name = "PaymentUrl" ->
            IF v.t = "null" THEN FieldOk
            ELSE IF v.t # "string"
            THEN FieldErr("invalid type: " \o v.t \o ", expected a string representing an URL")
            ELSE IF v.s \in AbsoluteUrls THEN FieldOk
            ELSE FieldErr("relative URL without a base")
      [] OTHER ->
            IF v.t = "string" THEN FieldOk
            ELSE FieldErr("invalid type: " \o v.t \o ", expected a string")

DecodeOk(value) == [ok |-> TRUE, path |-> "", message |-> "", value |-> value]
DecodeErr(path, msg) == [ok |-> FALSE, path |-> path, message |-> msg, value |-> Absent]

\* The first field, in declaration order from position i, that the object
\* did not supply and that is not an Option; 0 when there is none.
RECURSIVE FirstMissing(_, _)
FirstMissing(seen, i) ==
    IF i > Len(ResFields) THEN 0
    ELSE IF seen[ResFields[i]] = Absent /\ ResFields[i] \notin OptionalResFields THEN i
    ELSE FirstMissing(seen, i + 1)

BuildRes(seen) ==
    [ terminal_key |-> seen["TerminalKey"].s,
      amount       |-> [hi |-> seen["Amount"].hi, n |-> seen["Amount"].n],
      order_id     |-> seen["OrderId"].s,
      success      |-> seen["Success"].n = 1,
      status       |-> seen["Status"].s,
      payment_id   |-> seen["PaymentId"].s,
      error_code   |-> seen["ErrorCode"].s,
      payment_url  |-> IF seen["PaymentUrl"].t = "string"
                       THEN [some |-> TRUE, url |-> seen["PaymentUrl"].s]
                       ELSE [some |-> FALSE, url |-> ""],
      message      |-> seen["Message"].s,
      details      |-> seen["Details"].s ]

\* The derived visit_map: members are taken in document order, unknown keys
\* are skipped, a known key is decoded into its field (the first failure
\* ends decoding, at that key), and the fields left unset are looked at in
\* declaration order once the object ends.
RECURSIVE VisitMap(_, _, _)
VisitMap(members, i, seen) ==
    IF i > Len(members)
    THEN LET m == FirstMissing(seen, 1)
         IN IF m # 0
            THEN DecodeErr(".", "missing field '" \o ResFields[m] \o "'")
            ELSE DecodeOk(BuildRes(seen))
    ELSE LET k == members[i].k
             v == members[i].v
         IN IF k \notin ResFieldNames
            THEN VisitMap(members, i + 1, seen)
            ELSE IF seen[k] # Absent
            THEN DecodeErr(".", "duplicate field '" \o k \o "'")
            ELSE IF ~DeserializeField(k, v).ok
            THEN DecodeErr(k, DeserializeField(k, v).message)
            ELSE VisitMap(members, i + 1, [seen EXCEPT ![k] = v])

\* serde_path_to_error::deserialize::<_, InitPaymentRes> over the body text.
DeserializeRes(body) ==
    IF body.kind = "object"
    THEN VisitMap(body.members, 1, [f \in ResFieldNames |-> Absent])
    ELSE IF body.text = ""
    THEN DecodeErr(".", "EOF while parsing a value")
    ELSE DecodeErr(".", "expected value")

\* ------------------------------------------------------------------------
\* Gateway responses
\* ------------------------------------------------------------------------

\* Every field InitPaymentRes declares, PaymentUrl included.
BodyApproved ==
    ObjectBody(<< Member("Success", JBool(TRUE)), Member("ErrorCode", JStr("0")),
                  Member("TerminalKey", JStr("TBankTest")), Member("Status", JStr("NEW")),
                  Member("PaymentId", JStr("3093639567")), Member("OrderId", JStr("21090")),
                  Member("Amount", JNum(140000)),
                  Member("PaymentUrl", JStr("https://pay.tbank.ru/new/fU1ppgqa")),
                  Member("Message", JStr("OK")), Member("Details", JStr("")) >>)

\* The same, with the redirect URL under the gateway's key PaymentURL.
BodyApprovedGatewayKey ==
    ObjectBody(<< Member("Success", JBool(TRUE)), Member("ErrorCode", JStr("0")),
                  Member("TerminalKey", JStr("TBankTest")), Member("Status", JStr("NEW")),
                  Member("PaymentId", JStr("3093639567")), Member("OrderId", JStr("21090")),
                  Member("Amount", JNum(140000)),
                  Member("PaymentURL", JStr("https://pay.tbank.ru/new/fU1ppgqa")),
                  Member("Message", JStr("OK")), Member("Details", JStr("")) >>)

\* A business rejection that carries every required field.
BodyRejectedFull ==
    ObjectBody(<< Member("Success", JBool(FALSE)), Member("ErrorCode", JStr("204")),
                  Member("TerminalKey", JStr("TBankTest")), Member("Status", JStr("REJECTED")),
                  Member("PaymentId", JStr("3093639567")), Member("OrderId", JStr("21090")),
                  Member("Amount", JNum(140000)),
                  Member("Message", JStr("Invalid token")), Member("Details", JStr("")) >>)

\* {"Success":false,"ErrorCode":"204","Message":"..."}
BodyRejected204 ==
    ObjectBody(<< Member("Success", JBool(FALSE)), Member("ErrorCode", JStr("204")),
                  Member("Message", JStr("Invalid token")) >>)

\* {"Success":true,"ErrorCode":"0","Status":"NEW","PaymentId":"3093639567",
\*  "PaymentURL":"https://pay.example/xyz"}
BodyScenarioOk ==
    ObjectBody(<< Member("Success", JBool(TRUE)), Member("ErrorCode", JStr("0")),
                  Member("Status", JStr("NEW")), Member("PaymentId", JStr("3093639567")),
                  Member("PaymentURL", JStr("https://pay.example/xyz")) >>)

\* The body of test::parse_response.
BodyTestResponse ==
    ObjectBody(<< Member("Success", JBool(TRUE)), Member("ErrorCode", JStr("0")),
                  Member("TerminalKey", JStr("TBankTest")), Member("Status", JStr("NEW")),
                  Member("PaymentId", JStr("3093639567")), Member("OrderId", JStr("21090")),
                  Member("Amount", JNum(140000)),
                  Member("PaymentURL", JStr("https://pay.tbank.ru/new/fU1ppgqa")) >>)

\* BodyApproved with PaymentId given as a number.
BodyPaymentIdNumber ==
    ObjectBody(<< Member("Success", JBool(TRUE)), Member("ErrorCode", JStr("0")),
                  Member("TerminalKey", JStr("TBankTest")), Member("Status", JStr("NEW")),
                  Member("PaymentId", JBig(3, 93639567)), Member("OrderId", JStr("21090")),
                  Member("Amount", JNum(140000)),
                  Member("PaymentUrl", JStr("https://pay.tbank.ru/new/fU1ppgqa")),
                  Member("Message", JStr("OK")), Member("Details", JStr("")) >>)

\* A rejection that carries every field but the business fields Status,
\* PaymentId and the redirect URL.
BodyRejectedNoBusiness ==
    ObjectBody(<< Member("Success", JBool(FALSE)), Member("ErrorCode", JStr("204")),
                  Member("TerminalKey", JStr("TBankTest")), Member("OrderId", JStr("21090")),
                  Member("Amount", JNum(140000)),
                  Member("Message", JStr("Invalid token")), Member("Details", JStr("")) >>)

BodyHtml == TextBody("<html>502 Bad Gateway</html>")

GatewayBodies ==
    { BodyApproved, BodyApprovedGatewayKey, BodyRejectedFull, BodyRejected204,
      BodyScenarioOk, BodyTestResponse, BodyPaymentIdNumber,
      BodyRejectedNoBusiness, BodyHtml, EmptyBody }

\* Status codes the gateway may answer with: the ends of every class and
\* the codes the pipeline singles out, with their neighbours.
StatusCodes ==
    { 100, 101, 199, 200, 201, 204, 299, 300, 304, 399, 400, 401, 402, 403,
      404, 405, 428, 429, 430, 499, 500, 502, 503, 599, 600, 999 }

\* StatusCode::is_success and StatusCode::is_server_error.
IsSuccess(status) == 200 <= status /\ status < 300
IsServerError(status) == 500 <= status /\ status < 600

\* ------------------------------------------------------------------------
\* Error (error.rs) and the result of one invocation
\* ------------------------------------------------------------------------

NoBody == [kind |-> "none", text |-> "", members |-> <<>>]

Outcome(kind, detail, raw, path, message, value) ==
    [kind |-> kind, detail |-> detail, raw |-> raw, path |-> path,
     message |-> message, value |-> value]

Pending == Outcome("Pending", "", NoBody, "", "", Absent)
OkValue(v) == Outcome("Ok", "", NoBody, "", "", v)
ErrTimeout == Outcome("Timeout", "", NoBody, "", "", Absent)
ErrNetwork(text) == Outcome("Network", text, NoBody, "", "", Absent)
ErrUnauthorized == Outcome("Unauthorized", "", NoBody, "", "", Absent)
ErrForbidden == Outcome("Forbidden", "", NoBody, "", "", Absent)
ErrNotFound == Outcome("NotFound", "", NoBody, "", "", Absent)
ErrTooManyRequests == Outcome("TooManyRequests", "", NoBody, "", "", Absent)
ErrServer(body) == Outcome("Server", "", body, "", "", Absent)
ErrApi(body) == Outcome("Api", "", body, "", "", Absent)
ErrDeserialize(message, path, raw) == Outcome("Deserialize", "", raw, path, message, Absent)

\* ------------------------------------------------------------------------
\* Requests, the client and transport failures
\* ------------------------------------------------------------------------

\* The part of an InitPaymentReq body the local invariants speak about.
Payload(order_id, amount, shops) ==
    [order_id |-> order_id, amount |-> amount, shops |-> shops]

\* {Amount: 140000, OrderId: "21090", ...}
PayloadScenario == Payload("21090", 140000, <<>>)
\* An OrderId of 37 characters.
PayloadLongOrderId == Payload("0123456789012345678901234567890123456", 140000, <<>>)
\* Shop amounts that add up to 130000 under an Amount of 140000.
PayloadShopMismatch == Payload("21090", 140000, <<100000, 30000>>)

\* A reqwest::RequestBuilder as the caller hands it over: whether it holds a
\* request or a build error, whether its body can be cloned, its
\* Authorization header and its body.
Builder(built, clonable, payload) ==
    [built |-> built, clonable |-> clonable, authorization |-> "", payload |-> payload]

NoRequest == Builder(FALSE, FALSE, Payload("", 0, <<>>))

Requests ==
    { Builder(TRUE, TRUE, PayloadScenario),
      Builder(TRUE, FALSE, PayloadScenario),
      Builder(FALSE, TRUE, PayloadScenario),
      Builder(TRUE, TRUE, PayloadLongOrderId),
      Builder(TRUE, TRUE, PayloadShopMismatch) }

Environments == { "Test", "Production" }

\* The credential send reads as self.token.
Token == "t0ken"

\* try_clone() and build().ok(): a snapshot exists only of a builder that
\* holds a request whose body can be cloned.
Snapshot(r) == r.built /\ r.clonable

\* bearer_auth left out: the builder goes to send() as the caller made it.
BearerAuthSkipped(r, token) == r

\* RequestBuilder::bearer_auth: sets the header on the request the builder
\* holds; a builder that holds an error stays as it is.
BearerAuth(r, token) ==
    IF r.built THEN [r EXCEPT !.authorization = "Bearer " \o token] ELSE r

TransportError(cause) ==
    [cause |-> cause,
     text |-> CASE cause = "builder" -> "builder error"
                [] cause = "connect_timeout" -> "error trying to connect: operation timed out"
                [] cause = "refused" -> "error trying to connect: connection refused"
                [] cause = "deadline" -> "operation timed out"
                [] OTHER -> "connection reset by peer"]

NoError == [cause |-> "none", text |-> ""]

\* What can go wrong while send() or text() is awaited, by phase.  The
\* overall deadline (timeout, 20 s) runs through every phase, the connect
\* deadline (connect_timeout, 5 s) through the first only.
FailuresAt(phase) ==
    CASE phase = "Connecting" ->
            { TransportError("connect_timeout"), TransportError("refused"),
              TransportError("deadline") }
      [] OTHER ->
            { TransportError("deadline"), TransportError("reset") }

\* reqwest::Error::is_timeout.
IsTimeout(e) == e.cause \in { "connect_timeout", "deadline" }

\* map_err without the is_timeout branch.
MapSendErrorAllNetwork(e) == ErrNetwork(e.text)

\* The closure given to map_err.
MapSendError(e) ==
    IF IsTimeout(e) THEN ErrTimeout ELSE ErrNetwork(e.text)

\* The match without its TOO_MANY_REQUESTS arm.
ClassifyResponseNo429(s, b) ==
    CASE s = 401 -> ErrUnauthorized
      [] s = 403 -> ErrForbidden
      [] s = 404 -> ErrNotFound
      [] OTHER ->
            IF IsServerError(s) THEN ErrServer(b)
            ELSE IF ~IsSuccess(s) THEN ErrApi(b)
            ELSE Pending

\* The match without the is_success check after it.
ClassifyResponseNoSuccessCheck(s, b) ==
    CASE s = 401 -> ErrUnauthorized
      [] s = 403 -> ErrForbidden
      [] s = 404 -> ErrNotFound
      [] s = 429 -> ErrTooManyRequests
      [] OTHER ->
            IF IsServerError(s) THEN ErrServer(b)
            ELSE Pending

\* The match on the status and the check that follows it; Pending stands for
\* falling through to deserialization.
ClassifyResponse(s, b) ==
    CASE s = 401 -> ErrUnauthorized
      [] s = 403 -> ErrForbidden
      [] s = 404 -> ErrNotFound
      [] s = 429 -> ErrTooManyRequests
      [] OTHER ->
            IF IsServerError(s) THEN ErrServer(b)
            ELSE IF ~IsSuccess(s) THEN ErrApi(b)
            ELSE Pending

\* The enhanced deserialization block.
DecodeBody(b) ==
    LET d == DeserializeRes(b)
    IN IF d.ok THEN OkValue(d.value) ELSE ErrDeserialize(d.message, d.path, b)

\* ------------------------------------------------------------------------
\* State
\* ------------------------------------------------------------------------

VARIABLES
    client,       \* the shared Client: environment and credential
    calls,        \* invocations of send issued so far
    pc,           \* where the current invocation stands
    req,          \* the RequestBuilder passed to the current invocation
    snapshot,     \* whether request_snapshot is Some
    prepared,     \* the builder after bearer_auth, the one send() consumes
    wire,         \* requests of this invocation written to the network
    failure,      \* the failure the transport reported, and in which phase
    status,       \* resp.status(); 0 before a response head has arrived
    gatewayBody,  \* the body the gateway sent with that response
    body,         \* the local variable body
    decodes,      \* deserialization attempts of this invocation
    result,       \* what the invocation returned
    op,           \* the operation on a model type applied last
    input,        \* what it was applied to
    output,       \* what it gave
    tasks         \* the invocations of send that run concurrently, by task

vars == << client, calls, pc, req, snapshot, prepared, wire, failure, status,
           gatewayBody, body, decodes, result, op, input, output, tasks >>

\* The state of the dispatch pipeline and the state of the model types.
sendVars == << client, calls, pc, req, snapshot, prepared, wire, failure,
               status, gatewayBody, body, decodes, result >>
typeVars == << op, input, output >>
taskVars == << tasks >>

NoValue == [t |-> "none"]

NoFailure == [phase |-> "none", err |-> NoError]

\* The tasks that call send on the one Client.
MaxTasks == 2
TaskIds == 1..MaxTasks

\* The locals of one invocation of send: where it stands, the builder it was
\* given, request_snapshot, the builder after bearer_auth, the failure the
\* transport reported, status, the body the gateway sent, body, and what
\* the invocation returned.
Task(at, r, snap, prep, fail, s, sent, b, res) ==
    [ pc |-> at, req |-> r, snapshot |-> snap, prepared |-> prep,
      failure |-> fail, status |-> s, gatewayBody |-> sent, body |-> b,
      result |-> res ]

IdleTask ==
    Task("Idle", NoRequest, FALSE, NoRequest, NoFailure, 0, NoBody, NoBody, Pending)

Init ==
    /\ client \in [env : Environments, token : {Token}]
    /\ calls = 0
    /\ pc = "Idle"
    /\ req = NoRequest
    /\ snapshot = FALSE
    /\ prepared = NoRequest
    /\ wire = <<>>
    /\ failure = NoFailure
    /\ status = 0
    /\ gatewayBody = NoBody
    /\ body = NoBody
    /\ decodes = 0
    /\ result = Pending
    /\ op = "none"
    /\ input = NoValue
    /\ output = NoValue
    /\ tasks = [ i \in TaskIds |-> IdleTask ]

\* ------------------------------------------------------------------------
\* Client::send
\* ------------------------------------------------------------------------

\* The caller invokes send with a builder; every invocation starts afresh.
Call(r) ==
    /\ pc \in { "Idle", "Done" }
    /\ calls < MaxCalls
    /\ calls' = calls + 1
    /\ pc' = "Building"
    /\ req' = r
    /\ snapshot' = FALSE
    /\ prepared' = NoRequest
    /\ wire' = <<>>
    /\ failure' = NoFailure
    /\ status' = 0
    /\ gatewayBody' = NoBody
    /\ body' = NoBody
    /\ decodes' = 0
    /\ result' = Pending
    /\ UNCHANGED client
    /\ UNCHANGED << typeVars, taskVars >>

\* send returning the build error by itself, before send() is called.
BeginSendEarlyReturn ==
    /\ pc = "Building"
    /\ snapshot' = Snapshot(req)
    /\ prepared' = BearerAuth(req, client.token)
    /\ IF req.built
       THEN pc' = "Connecting" /\ result' = result
       ELSE pc' = "Done" /\ result' = ErrNetwork(TransportError("builder").text)
    /\ UNCHANGED << client, calls, req, wire, failure, status, gatewayBody,
                    body, decodes >>
    /\ UNCHANGED << typeVars, taskVars >>

\* request_snapshot, then req.bearer_auth(&self.token).send(): the future
\* returned for a builder that holds an error resolves without any I/O.
BeginSend ==
    /\ pc = "Building"
    /\ snapshot' = Snapshot(req)
    /\ prepared' = BearerAuth(req, client.token)
    /\ pc' = IF req.built THEN "Connecting" ELSE "PendingErr"
    /\ UNCHANGED << client, calls, req, wire, failure, status, gatewayBody,
                    body, decodes, result >>
    /\ UNCHANGED << typeVars, taskVars >>

\* The build error answered by building and sending again.
SendRejectedRebuild ==
    /\ pc = "PendingErr"
    /\ pc' = "Building"
    /\ UNCHANGED << client, calls, req, snapshot, prepared, wire, failure,
                    status, gatewayBody, body, decodes, result >>
    /\ UNCHANGED << typeVars, taskVars >>

\* send().await yields the build error; map_err turns it into the result.
SendRejected ==
    /\ pc = "PendingErr"
    /\ failure' = [phase |-> "PendingErr", err |-> TransportError("builder")]
    /\ result' = MapSendError(TransportError("builder"))
    /\ pc' = "Done"
    /\ UNCHANGED << client, calls, req, snapshot, prepared, wire, status,
                    gatewayBody, body, decodes >>
    /\ UNCHANGED << typeVars, taskVars >>

\* The connection is there and the request goes out on it.
ConnectOk ==
    /\ pc = "Connecting"
    /\ wire' = Append(wire, prepared)
    /\ pc' = "Sending"
    /\ UNCHANGED << client, calls, req, snapshot, prepared, failure, status,
                    gatewayBody, body, decodes, result >>
    /\ UNCHANGED << typeVars, taskVars >>

\* The request has been written; the response is awaited.
WriteOk ==
    /\ pc = "Sending"
    /\ pc' = "Waiting"
    /\ UNCHANGED << client, calls, req, snapshot, prepared, wire, failure,
                    status, gatewayBody, body, decodes, result >>
    /\ UNCHANGED << typeVars, taskVars >>

\* A timeout answered by sending the request again.
SendFailRetry(e) ==
    /\ pc \in { "Connecting", "Sending", "Waiting" }
    /\ e \in FailuresAt(pc)
    /\ failure' = [phase |-> pc, err |-> e]
    /\ IF IsTimeout(e)
       THEN pc' = "Connecting" /\ result' = result
       ELSE pc' = "Done" /\ result' = MapSendError(e)
    /\ UNCHANGED << client, calls, req, snapshot, prepared, wire, status,
                    gatewayBody, body, decodes >>
    /\ UNCHANGED << typeVars, taskVars >>

\* send().await yields an error before any response: map_err and return.
SendFail(e) ==
    /\ pc \in { "Connecting", "Sending", "Waiting" }
    /\ e \in FailuresAt(pc)
    /\ failure' = [phase |-> pc, err |-> e]
    /\ result' = MapSendError(e)
    /\ pc' = "Done"
    /\ UNCHANGED << client, calls, req, snapshot, prepared, wire, status,
                    gatewayBody, body, decodes >>
    /\ UNCHANGED << typeVars, taskVars >>

\* The response head arrives: resp.status().
ReceiveHead(s) ==
    /\ pc = "Waiting"
    /\ status' = s
    /\ pc' = "ReadingBody"
    /\ UNCHANGED << client, calls, req, snapshot, prepared, wire, failure,
                    gatewayBody, body, decodes, result >>
    /\ UNCHANGED << typeVars, taskVars >>

\* resp.text().await yields the whole body.
ReadBodyOk(b) ==
    /\ pc = "ReadingBody"
    /\ gatewayBody' = b
    /\ body' = b
    /\ pc' = "Classify"
    /\ UNCHANGED << client, calls, req, snapshot, prepared, wire, failure,
                    status, decodes, result >>
    /\ UNCHANGED << typeVars, taskVars >>

\* resp.text().await yields an error: unwrap_or_default() puts the empty
\* string in its place and the invocation goes on.
ReadBodyFail(b, e) ==
    /\ pc = "ReadingBody"
    /\ e \in FailuresAt(pc)
    /\ gatewayBody' = b
    /\ body' = EmptyBody
    /\ failure' = [phase |-> pc, err |-> e]
    /\ pc' = "Classify"
    /\ UNCHANGED << client, calls, req, snapshot, prepared, wire, status,
                    decodes, result >>
    /\ UNCHANGED << typeVars, taskVars >>

\* The status match and the non-success check.
Classify ==
    /\ pc = "Classify"
    /\ LET r == ClassifyResponse(status, body)
       IN IF r.kind # "Pending"
          THEN result' = r /\ pc' = "Done"
          ELSE result' = result /\ pc' = "Deserialize"
    /\ UNCHANGED << client, calls, req, snapshot, prepared, wire, failure,
                    status, gatewayBody, body, decodes >>
    /\ UNCHANGED << typeVars, taskVars >>

\* serde_path_to_error::deserialize and the match on its result.
Deserialize ==
    /\ pc = "Deserialize"
    /\ decodes' = decodes + 1
    /\ result' = DecodeBody(body)
    /\ pc' = "Done"
    /\ UNCHANGED << client, calls, req, snapshot, prepared, wire, failure,
                    status, gatewayBody, body >>
    /\ UNCHANGED << typeVars, taskVars >>

\* The steps that belong to an invocation under way.
Progress ==
    \/ BeginSend
    \/ SendRejected
    \/ ConnectOk
    \/ WriteOk
    \/ \E e \in FailuresAt("Connecting") \cup FailuresAt("Sending") : SendFail(e)
    \/ \E s \in StatusCodes : ReceiveHead(s)
    \/ \E b \in GatewayBodies : ReadBodyOk(b)
    \/ \E b \in GatewayBodies, e \in FailuresAt("ReadingBody") : ReadBodyFail(b, e)
    \/ Classify
    \/ Deserialize

Next ==
    \/ \E r \in Requests : Call(r)
    \/ Progress

Spec == Init /\ [][Next]_vars

\* The runtime keeps polling the future, and the transport answers, fails
\* or runs into the overall deadline.
FairSpec == Spec /\ WF_vars(Progress)

\* ------------------------------------------------------------------------
\* Properties
\* ------------------------------------------------------------------------

\* The error kind the taxonomy assigns to a status code; "Decode" for 2xx.
KindOfStatus(s) ==
    CASE s = 401 -> "Unauthorized"
      [] s = 403 -> "Forbidden"
      [] s = 404 -> "NotFound"
      [] s = 429 -> "TooManyRequests"
      [] s \in 500..599 -> "Server"
      [] s \in 200..299 -> "Decode"
      [] OTHER -> "Api"

\* A response has arrived and the invocation has returned.
Answered == pc = "Done" /\ status # 0

\* C1: for every response received, the result is fixed by the status code:
\* 401 Unauthorized, 403 Forbidden, 404 NotFound, 429 TooManyRequests, 5xx
\* Server(body), any other non-2xx Api(body), and a 2xx whose body does not
\* parse Deserialize{path, message, raw}; the mapping is total over the
\* status codes 100..999.
C1_StatusMapping ==
    /\ Answered =>
         CASE KindOfStatus(status) = "Server" -> result = ErrServer(body)
           [] KindOfStatus(status) = "Api" -> result = ErrApi(body)
           [] KindOfStatus(status) = "Decode" ->
                 /\ result.kind \in { "Ok", "Deserialize" }
                 /\ ~DeserializeRes(body).ok =>
                        /\ result.kind = "Deserialize"
                        /\ result.raw = body
                        /\ result.path = DeserializeRes(body).path
                        /\ result.message = DeserializeRes(body).message
           [] OTHER ->
                 result = Outcome(KindOfStatus(status), "", NoBody, "", "", Absent)
    /\ pc = "Classify" =>
         \A s \in 100..999 :
            LET k == ClassifyResponse(s, body).kind
            IN k = IF KindOfStatus(s) = "Decode" THEN "Pending" ELSE KindOfStatus(s)

C1_Witness ==
    /\ Answered
    /\ status = 503
    /\ result = ErrServer(BodyHtml)

\* The body is a JSON object whose Success member is false.
SuccessFalse(b) ==
    /\ b.kind = "object"
    /\ \E i \in 1..Len(b.members) :
          b.members[i] = Member("Success", JBool(FALSE))

\* C2: a 2xx response whose body carries Success = false is returned as the
\* business rejection Api, never as Ok, Deserialize, Network or Timeout.
C2_RejectionIsApi ==
    (Answered /\ status \in 200..299 /\ failure = NoFailure /\ SuccessFalse(body))
        => result.kind = "Api"

\* C3: when the overall deadline expires in any phase of an invocation, the
\* invocation returns exactly Timeout.
C3_DeadlineIsTimeout ==
    (pc = "Done" /\ failure.err.cause = "deadline") => result = ErrTimeout

\* C4: a transport failure before any response yields Timeout if and only if
\* it is a timeout, and Network for every other failure.
C4_TimeoutVersusNetwork ==
    (pc = "Done" /\ status = 0) =>
        /\ failure # NoFailure
        /\ failure.err.cause \in { "connect_timeout", "deadline" }
              <=> result = ErrTimeout
        /\ failure.err.cause \notin { "connect_timeout", "deadline" }
              <=> result = ErrNetwork(failure.err.text)

C4_Witness ==
    /\ pc = "Done"
    /\ failure = [phase |-> "Connecting", err |-> TransportError("refused")]
    /\ result.kind = "Network"

\* The invocation has handed its request to the transport.
HandedOver == pc \in { "Connecting", "Sending", "Waiting", "ReadingBody" }

\* C5: the bearer credential is attached before the request is handed to the
\* transport; no request is on the network without its Authorization header.
C5_BearerBeforeSend ==
    /\ HandedOver => prepared.authorization = "Bearer " \o client.token
    /\ \A i \in 1..Len(wire) :
          wire[i].authorization = "Bearer " \o client.token

C5_Witness ==
    /\ pc = "Sending"
    /\ Len(wire) = 1
    /\ wire[1].authorization = "Bearer t0ken"

RECURSIVE SumOf(_)
SumOf(q) == IF q = <<>> THEN 0 ELSE Head(q) + SumOf(Tail(q))

\* The local invariants of a payment request: OrderId of at most 36
\* characters, a positive Amount, shop amounts that add up to the Amount.
LocalInvariantsHold(p) ==
    /\ Len(p.order_id) <= 36
    /\ p.amount > 0
    /\ p.shops # <<>> => SumOf(p.shops) = p.amount

\* C6: only requests that satisfy the local model invariants are ever
\* written to the network.
C6_OnlyValidOnWire ==
    \A i \in 1..Len(wire) : LocalInvariantsHold(wire[i].payload)

\* C7: one invocation hands at most one request to the network, whatever
\* its outcome, and every result drawn from a response comes from the one
\* round trip of that invocation.
C7_AtMostOneSend ==
    /\ Len(wire) <= 1
    /\ Answered => Len(wire) = 1

C7_Witness ==
    /\ pc = "Done"
    /\ result = ErrTimeout
    /\ Len(wire) = 1

\* The state of the invocation in the terms of the request state machine.
SmState ==
    CASE pc = "Idle" -> "NotStarted"
      [] pc = "Building" -> "Building"
      [] pc = "Done" ->
            ( CASE result.kind = "Timeout" -> "TimedOut"
                [] result.kind = "Network" -> "NetworkFailed"
                [] result.kind = "Ok" -> "Decoded"
                [] result.kind = "Deserialize" -> "DecodeFailed"
                [] result.kind \in { "Unauthorized", "Forbidden", "NotFound",
                                     "TooManyRequests", "Server", "Api" }
                      -> "StatusClassified"
                [] OTHER -> "Undetermined" )
      [] OTHER -> "Sent"

FinalStates ==
    { "TimedOut", "NetworkFailed", "StatusClassified", "Decoded", "DecodeFailed" }

\* C8: an invocation moves Building -> Sent -> one of the five final states:
\* Building is left only for Sent, a final state is entered only from Sent,
\* a returned invocation is in exactly one final state, and a final state is
\* never left.
C8_StateMachine ==
    [][ /\ pc' = "Done" => SmState' \in FinalStates
        /\ calls' = calls =>
             /\ SmState = "Building" => SmState' \in { "Building", "Sent" }
             /\ (SmState' \in FinalStates /\ SmState' # SmState) => SmState = "Sent"
             /\ SmState \in FinalStates => SmState' = SmState /\ result' = result
      ]_vars

C8_Witness ==
    /\ SmState = "Decoded"
    /\ result.value.payment_id = "3093639567"

\* C9: under fairness of the transport, an invocation that has reached Sent
\* reaches a final state and returns.
C9_SentTerminates ==
    (SmState = "Sent") ~> (pc = "Done" /\ SmState \in FinalStates)

C9_Witness ==
    /\ pc = "Done"
    /\ SmState = "DecodeFailed"
    /\ Len(wire) = 1

\* C10: deserialization is attempted only for a 2xx status; a non-2xx
\* response returns its status-classified error with no attempt made.
C10_DecodeOnlyOn2xx ==
    /\ (pc = "Deserialize" \/ decodes > 0) => status \in 200..299
    /\ (Answered /\ status \notin 200..299) =>
          decodes = 0 /\ result.kind \notin { "Ok", "Deserialize" }

C10_Witness ==
    /\ Answered
    /\ status = 404
    /\ body = BodyApproved
    /\ decodes = 0

\* The invocation returned Deserialize for a 2xx response.
DecodeFailed == Answered /\ status \in 200..299 /\ result.kind = "Deserialize"

\* C11: a 2xx body that fails to decode yields Deserialize whose path is the
\* place where decoding failed (PaymentId for a body whose PaymentId is a
\* number), whose message is the decoder's and whose raw is the complete
\* response body, unchanged.
C11_DeserializeReport ==
    DecodeFailed =>
        /\ result.raw = gatewayBody
        /\ result.path = DeserializeRes(gatewayBody).path
        /\ result.message = DeserializeRes(gatewayBody).message
        /\ gatewayBody = BodyPaymentIdNumber => result.path = "PaymentId"

\* C12: the string a Server or Api error carries is the body the gateway
\* sent, also when reading it failed part-way; it is never replaced by an
\* empty or altered string.
C12_BodyVerbatim ==
    (Answered /\ result.kind \in { "Server", "Api" }) => result.raw = gatewayBody

\* The body is a JSON object with a member of that key.
HasMember(b, k) ==
    /\ b.kind = "object"
    /\ \E i \in 1..Len(b.members) : b.members[i].k = k

\* The string under that key, "" when there is none.
RECURSIVE StringAt(_, _, _)
StringAt(members, k, i) ==
    IF i > Len(members) THEN ""
    ELSE IF members[i].k = k THEN members[i].v.s
    ELSE StringAt(members, k, i + 1)

\* The whole body was read for a 2xx response.
ReadAll2xx == Answered /\ status \in 200..299 /\ failure = NoFailure

\* C13: the approval body of the scenario decodes into an Ok value whose
\* payment_url is the URL sent, and every success body that carries the
\* PaymentURL key yields a value with payment_url populated.
C13_PaymentUrlPopulated ==
    /\ (ReadAll2xx /\ body = BodyScenarioOk) =>
          /\ result.kind = "Ok"
          /\ result.value.payment_url = [some |-> TRUE, url |-> "https://pay.example/xyz"]
    /\ (ReadAll2xx /\ result.kind = "Ok" /\ HasMember(body, "PaymentURL")) =>
          result.value.payment_url =
              [some |-> TRUE, url |-> StringAt(body.members, "PaymentURL", 1)]

\* The fields of the envelope that are not business fields.
EnvelopeFields ==
    { "Success", "ErrorCode", "Message", "Details", "TerminalKey", "Amount", "OrderId" }

\* C14: a body that carries Success, ErrorCode and Message/Details decodes,
\* and yields them, whichever of Status, PaymentId and the redirect URL are
\* absent.
C14_LenientEnvelope ==
    (ReadAll2xx /\ \A k \in EnvelopeFields : HasMember(body, k)) =>
        /\ result.kind = "Ok"
        /\ result.value.error_code = StringAt(body.members, "ErrorCode", 1)
        /\ result.value.message = StringAt(body.members, "Message", 1)

\* ------------------------------------------------------------------------
\* Model types (payment.rs, receipt.rs)
\* ------------------------------------------------------------------------

\* How far beyond a documented ceiling the inputs go.
MaxOver == 2

\* u16::MAX, the largest NonZeroU16.
U16Max == 65535

\* A string of n characters.
RECURSIVE StringOf(_)
StringOf(n) ==
    IF n = 0 THEN ""
    ELSE LET half == StringOf(n \div 2)
         IN  IF n % 2 = 0 THEN half \o half ELSE half \o half \o "x"

\* The ceilings the doc comments state ("Requirements: <= n characters").
DocumentedMaxLen ==
    [ OrderId |-> 36, Description |-> 140, CustomerKey |-> 36,
      TerminalKey |-> 20, ItemName |-> 128 ]

\* The closed sets the doc comments state ("Requirements: [...]") for the
\* types declared as a newtype over String.
DocumentedSet ==
    [ Recurrent |-> { "Y" }, Device |-> { "SDK", "Desktop", "Mobile" } ]

\* The unit variants of the derived enums, under their wire names.
EnumVariants ==
    [ PayType |-> { "O", "T" },
      FfdVersion |-> { "1.2", "1.05" },
      Tax |-> { "none", "vat0", "vat5", "vat7", "vat10", "vat20", "vat22",
                "vat105", "vat107", "vat110", "vat120", "vat122" } ]

StringTypes == DOMAIN DocumentedMaxLen \cup DOMAIN DocumentedSet
EnumTypes == DOMAIN EnumVariants

\* What the declaration of each type wraps.
TypeRepr(t) ==
    CASE t \in StringTypes -> "String"
      [] t \in EnumTypes -> "enum"
      [] t = "Amount" -> "NonZeroU32"
      [] t = "Quantity" -> "NonZeroU16"
      [] OTHER -> "u32"

TypeOk(value) == [ok |-> TRUE, error |-> "", message |-> "", value |-> value]
TypeErr(error, message) ==
    [ok |-> FALSE, error |-> error, message |-> message, value |-> NoValue]

\* The number a JSON number value stands for, as the pair it is kept in.
NumberOf(v) == [hi |-> v.hi, n |-> v.n]

FitsU16(v) == v.hi = 0 /\ 0 <= v.n /\ v.n <= U16Max

\* The derived Deserialize of a value type: a newtype hands the JSON value to
\* the type it wraps, a unit-variant enum takes the name of a variant.
DeserializeType(t, v) ==
    CASE TypeRepr(t) = "String" ->
            IF v.t = "string" THEN TypeOk(v.s)
            ELSE TypeErr("serde", "invalid type: " \o v.t \o ", expected a string")
      [] TypeRepr(t) = "enum" ->
            IF v.t # "string"
            THEN TypeErr("serde", "invalid type: " \o v.t \o ", expected variant identifier")
            ELSE IF v.s \in EnumVariants[t] THEN TypeOk(v.s)
            ELSE TypeErr("serde", "unknown variant '" \o v.s \o "'")
      [] TypeRepr(t) = "NonZeroU32" ->
            IF DeserializeField("Amount", v).ok THEN TypeOk(NumberOf(v))
            ELSE TypeErr("serde", DeserializeField("Amount", v).message)
      [] TypeRepr(t) = "NonZeroU16" ->
            IF v.t # "number"
            THEN TypeErr("serde", "invalid type: " \o v.t \o ", expected a nonzero u16")
            ELSE IF IsZero(v)
            THEN TypeErr("serde", "invalid value: integer '0', expected a nonzero u16")
            ELSE IF ~FitsU16(v)
            THEN TypeErr("serde", "invalid value: integer out of range, expected a nonzero u16")
            ELSE TypeOk(NumberOf(v))
      [] OTHER ->
            IF v.t # "number"
            THEN TypeErr("serde", "invalid type: " \o v.t \o ", expected u32")
            ELSE IF ~FitsU32(v)
            THEN TypeErr("serde", "invalid value: integer out of range, expected u32")
            ELSE TypeOk(NumberOf(v))

\* TerminalKey::from_env: a TERMINAL_KEY of more than 20 bytes is filtered
\* out and reported like a missing one.
FromEnv(v) ==
    IF Len(v.s) <= DocumentedMaxLen.TerminalKey THEN TypeOk(v.s)
    ELSE TypeErr("Config", "TERMINAL_KEY variable is missing")

\* Making a value of the type from a raw value inside the crate: TerminalKey
\* has from_env, any other tuple struct takes any String; NonZeroU32 and
\* NonZeroU16 have no value for zero or for a number outside their width.
ConstructType(t, v) ==
    CASE t = "TerminalKey" -> FromEnv(v)
      [] TypeRepr(t) = "String" -> TypeOk(v.s)
      [] TypeRepr(t) = "NonZeroU32" ->
            IF ~IsZero(v) /\ FitsU32(v) THEN TypeOk(NumberOf(v))
            ELSE TypeErr("none", "not a NonZeroU32")
      [] TypeRepr(t) = "NonZeroU16" ->
            IF ~IsZero(v) /\ FitsU16(v) THEN TypeOk(NumberOf(v))
            ELSE TypeErr("none", "not a NonZeroU16")
      [] OTHER ->
            IF FitsU32(v) THEN TypeOk(NumberOf(v))
            ELSE TypeErr("none", "not a u32")

\* Raw inputs.
StringInputs(t) ==
    IF t \in DOMAIN DocumentedMaxLen
    THEN { JStr(StringOf(n)) :
             n \in { 0, 1 } \cup
                   ((DocumentedMaxLen[t] - 1) .. (DocumentedMaxLen[t] + MaxOver)) }
    ELSE { JStr(x) : x \in { "", "Y", "N", "y", "SDK", "Desktop", "Mobile", "Tablet" } }

VariantInputs ==
    { JStr(x) : x \in { "O", "T", "o", "X", "1.2", "1.05", "1.1", "none", "vat0",
                        "vat20", "vat122", "vat18", "VAT20" } }
        \cup { JNull, JNum(1) }

NumberInputs ==
    { JNum(n) : n \in { -140000, -1, 0, 1, 2, 9, 10, 99999, 100000, 65535, 65536,
                        140000, 99999999, 100000000, 999999999 } }
        \cup { JBig(1, 0), JBig(4, 294967295), JBig(4, 294967296), JBig(9, 999999999),
               JBig(10, 0), JStr("140000"), JNull, JBool(TRUE) }

NumberTypes == { "Amount", "Quantity", "Numerator", "Denominator" }

InputsOf(t) ==
    CASE t \in StringTypes -> StringInputs(t)
      [] t \in EnumTypes -> VariantInputs
      [] OTHER -> NumberInputs

ValueTypes == StringTypes \cup EnumTypes \cup NumberTypes

\* A value of a value type is decoded from JSON.
DecodeValue(t, v) ==
    /\ op' = "deserialize"
    /\ input' = [type |-> t, json |-> v]
    /\ output' = DeserializeType(t, v)
    /\ UNCHANGED << sendVars, taskVars >>

\* A value of a value type is made from a raw value in code.
ConstructValue(t, v) ==
    /\ TypeRepr(t) # "enum"
    /\ v.t = IF TypeRepr(t) = "String" THEN "string" ELSE "number"
    /\ op' = "construct"
    /\ input' = [type |-> t, json |-> v]
    /\ output' = ConstructType(t, v)
    /\ UNCHANGED << sendVars, taskVars >>

\* An Option that is None, for the optional amounts of Payments.
None == 0

\* Payments: electronic is required, the four others are Option.
PaymentsOf(electronic, cash, advance_payment, credit, provision) ==
    [ electronic |-> electronic, cash |-> cash,
      advance_payment |-> advance_payment, credit |-> credit,
      provision |-> provision ]

\* A Receipt, reduced to what the amounts are about: the amount of each
\* item and the Payments.
ReceiptOf(items, payments) ==
    [present |-> TRUE, items |-> items, payments |-> payments]

\* InitPaymentReq.receipt = None.
NoReceipt ==
    [present |-> FALSE, items |-> <<>>, payments |-> PaymentsOf(None, None, None, None, None)]

\* The three items of the scenario under Electronic = 140000.
ReceiptScenario ==
    ReceiptOf(<<10000, 40000, 90000>>, PaymentsOf(140000, None, None, None, None))
\* Items and payments that agree (140000) with Electronic = 100000.
ReceiptSplit ==
    ReceiptOf(<<100000, 40000>>, PaymentsOf(100000, 30000, None, 10000, None))
\* Items of 100000 under payments of 140000.
ReceiptItemsMismatch ==
    ReceiptOf(<<100000>>, PaymentsOf(140000, None, None, None, None))
\* An item whose Amount is zero.
ReceiptZeroItem ==
    ReceiptOf(<<140000, 0>>, PaymentsOf(140000, None, None, None, None))

Receipts == { ReceiptScenario, ReceiptSplit, ReceiptItemsMismatch }

\* The amounts of the shops of a request.
ShopLists == { <<>>, <<140000>>, <<100000, 30000>>, <<100000, 30000, 10000>> }

\* The fields of an InitPaymentReq the amounts are about.
RequestOf(amount, shops, receipt) ==
    [t |-> "struct", amount |-> amount, shops |-> shops, receipt |-> receipt]

\* A struct literal: with a value for every field the struct exists; the
\* declaration has no constructor and no sealing step.
BuildStruct(fields) == TypeOk(fields)

\* The derived Deserialize of Receipt: every item amount and every payment
\* component present goes through the Deserialize of Amount, and nothing
\* compares one with another.
DeserializeReceipt(r) ==
    LET amounts == { r.items[i] : i \in 1..Len(r.items) }
                       \cup { r.payments.electronic }
                       \cup ({ r.payments.cash, r.payments.advance_payment,
                               r.payments.credit, r.payments.provision } \ { None })
        refused == { a \in amounts : ~DeserializeType("Amount", JNum(a)).ok }
    IN  IF refused = {} THEN TypeOk(r)
        ELSE TypeErr("serde", DeserializeType("Amount", JNum(CHOOSE a \in refused : TRUE)).message)

\* The JSON object of a MarkQuantity.
MarkQuantityJson(numerator, denominator) ==
    [t |-> "object", numerator |-> numerator, denominator |-> denominator]

\* The derived Deserialize of MarkQuantity: Numerator, then Denominator, each
\* a transparent u32.
DeserializeMarkQuantity(v) ==
    IF ~DeserializeType("Numerator", v.numerator).ok
    THEN TypeErr("serde", DeserializeType("Numerator", v.numerator).message)
    ELSE IF ~DeserializeType("Denominator", v.denominator).ok
    THEN TypeErr("serde", DeserializeType("Denominator", v.denominator).message)
    ELSE TypeOk([ numerator |-> DeserializeType("Numerator", v.numerator).value,
                  denominator |-> DeserializeType("Denominator", v.denominator).value ])

FractionInputs == { JNum(-1), JNum(0), JNum(1), JNum(2), JStr("1") }

\* An InitPaymentReq is written as a struct literal.
BuildRequest(amount, shops, receipt) ==
    /\ op' = "construct"
    /\ input' = [type |-> "InitPaymentReq", json |-> RequestOf(amount, shops, receipt)]
    /\ output' = BuildStruct(RequestOf(amount, shops, receipt))
    /\ UNCHANGED << sendVars, taskVars >>

\* A Receipt is decoded from JSON.
DecodeReceipt(r) ==
    /\ op' = "deserialize"
    /\ input' = [type |-> "Receipt", json |-> [t |-> "object", receipt |-> r]]
    /\ output' = DeserializeReceipt(r)
    /\ UNCHANGED << sendVars, taskVars >>

\* A MarkQuantity is decoded from JSON.
DecodeMarkQuantity(numerator, denominator) ==
    /\ op' = "deserialize"
    /\ input' = [type |-> "MarkQuantity", json |-> MarkQuantityJson(numerator, denominator)]
    /\ output' = DeserializeMarkQuantity(MarkQuantityJson(numerator, denominator))
    /\ UNCHANGED << sendVars, taskVars >>

\* A MarkQuantity is written as a struct literal from two u32.
BuildMarkQuantity(numerator, denominator) ==
    /\ ConstructType("Numerator", numerator).ok
    /\ ConstructType("Denominator", denominator).ok
    /\ op' = "construct"
    /\ input' = [type |-> "MarkQuantity", json |-> MarkQuantityJson(numerator, denominator)]
    /\ output' = BuildStruct([ numerator |-> NumberOf(numerator),
                               denominator |-> NumberOf(denominator) ])
    /\ UNCHANGED << sendVars, taskVars >>

\* A field of a declaration, and one with #[serde(rename = "...")].
Field(name) == [name |-> name, rename |-> ""]
FieldRenamed(name, rename) == [name |-> name, rename |-> rename]

\* The declarations an InitPaymentReq is made of, each with the rename_all
\* its serde attribute gives to its fields ("" where it has none), and
\* InitPaymentRes. rename_all on the enum Receipt renames its variants, so
\* the fields of FFD105 and FFD12 are under no rule.
Declarations ==
    [ InitPaymentReq |->
        [ rename_all |-> "PascalCase",
          fields |-> << Field("terminal_key"), Field("amount"), Field("order_id"),
                        Field("token"), Field("description"), Field("customer_key"),
                        Field("recurrent"), Field("pay_type"), Field("language"),
                        Field("notification_url"), Field("success_url"),
                        Field("fail_url"), Field("redirect_due_date"),
                        FieldRenamed("data", "DATA"), Field("receipt"),
                        Field("shops") >> ],
      InitPaymentRes |->
        [ rename_all |-> "PascalCase",
          fields |-> << Field("terminal_key"), Field("amount"), Field("order_id"),
                        Field("success"), Field("status"), Field("payment_id"),
                        Field("error_code"), Field("payment_url"), Field("message"),
                        Field("details") >> ],
      Data |->
        [ rename_all |-> "",
          fields |-> << Field("additional_properties"),
                        Field("operation_initiator_type"), Field("device"),
                        Field("device_os"), Field("device_web_view"),
                        Field("device_browser"), Field("tinkoff_pay_web") >> ],
      Shop |->
        [ rename_all |-> "",
          fields |-> << Field("shop_code"), Field("amount"), Field("name"),
                        Field("fee") >> ],
      ReceiptFFD105 |->
        [ rename_all |-> "",
          fields |-> << Field("items"), Field("ffd_version"), Field("email"),
                        Field("phone"), Field("taxation"), Field("payments") >> ],
      ReceiptFFD12 |->
        [ rename_all |-> "",
          fields |-> << Field("items"), Field("ffd_vesrion"), Field("client_info"),
                        Field("taxation"), Field("email"), Field("phone"),
                        Field("customer"), Field("customer_inn"), Field("payments"),
                        Field("operating_check_props"),
                        Field("sectoral_check_props"), Field("add_user_prop"),
                        Field("additional_check_props") >> ],
      ItemFFD105 |->
        [ rename_all |-> "PascalCase",
          fields |-> << Field("name"), Field("price"), Field("quantity"),
                        Field("amount"), Field("payment_method"),
                        Field("payment_object"), Field("tax"), Field("ean_13"),
                        Field("agent_data"), Field("supplier_info") >> ],
      ItemFFD12 |->
        [ rename_all |-> "PascalCase",
          fields |-> << Field("name"), Field("price"), Field("quantity"),
                        Field("amount"), Field("payment_method"),
                        Field("payment_object"), Field("tax"), Field("agent_data"),
                        Field("supplier_info"), Field("user_data"), Field("excise"),
                        Field("country_code"), Field("declaration_number"),
                        Field("measurement_unit"), Field("mark_processing_mode"),
                        Field("mark_code"), Field("mark_quantity"),
                        Field("sectoral_item_props") >> ],
      AgentData |->
        [ rename_all |-> "PascalCase",
          fields |-> << Field("agent_sign"), Field("operation_name"),
                        Field("phones"), Field("receiver_phones"),
                        Field("transfer_phones"), Field("operator_name"),
                        Field("operator_address"), Field("perator_inn") >> ],
      MarkCode |->
        [ rename_all |-> "",
          fields |-> << Field("mark_code_type"), Field("value") >> ],
      MarkQuantity |->
        [ rename_all |-> "PascalCase",
          fields |-> << Field("numerator"), Field("denominator") >> ],
      ClientInfo |->
        [ rename_all |-> "",
          fields |-> << Field("birthdate"), Field("citizenship"),
                        Field("document_code"), Field("document_data"),
                        Field("address") >> ],
      Payments |->
        [ rename_all |-> "PascalCase",
          fields |-> << Field("electronic"), Field("cash"),
                        Field("advance_payment"), Field("credit"),
                        Field("provision") >> ] ]

\* The declarations that take part in the JSON of an InitPaymentReq.
RequestDeclarations == DOMAIN Declarations \ { "InitPaymentRes" }

LowerCase == << "a", "b", "c", "d", "e", "f", "g", "h", "i", "j", "k", "l", "m",
                "n", "o", "p", "q", "r", "s", "t", "u", "v", "w", "x", "y", "z" >>
UpperCase == << "A", "B", "C", "D", "E", "F", "G", "H", "I", "J", "K", "L", "M",
                "N", "O", "P", "Q", "R", "S", "T", "U", "V", "W", "X", "Y", "Z" >>

\* char::to_ascii_uppercase
ToAsciiUppercase(c) ==
    IF \E i \in 1..Len(LowerCase) : LowerCase[i] = c
    THEN UpperCase[CHOOSE i \in 1..Len(LowerCase) : LowerCase[i] = c]
    ELSE c

\* rename_all = "PascalCase" applied to a field name: an underscore is
\* dropped and the character after it, like the first one, is upper-cased.
RECURSIVE PascalCase(_, _)
PascalCase(field, capitalize) ==
    IF field = "" THEN ""
    ELSE LET ch == SubSeq(field, 1, 1)
             rest == SubSeq(field, 2, Len(field))
         IN  IF ch = "_" THEN PascalCase(rest, TRUE)
             ELSE IF capitalize THEN ToAsciiUppercase(ch) \o PascalCase(rest, FALSE)
             ELSE ch \o PascalCase(rest, FALSE)

\* The JSON key of a field: its rename, else its name under the rename_all
\* of its declaration, else its name as written.
KeyOf(d, f) ==
    IF f.rename # "" THEN f.rename
    ELSE IF Declarations[d].rename_all = "PascalCase" THEN PascalCase(f.name, TRUE)
    ELSE f.name

KeysOf(d) ==
    { KeyOf(d, Declarations[d].fields[i]) : i \in 1..Len(Declarations[d].fields) }

\* The derived Serialize of a declaration writes one key for each field.
SerializeStruct(d) ==
    /\ op' = "serialize"
    /\ input' = [type |-> d, json |-> [t |-> "struct"]]
    /\ output' = TypeOk(KeysOf(d))
    /\ UNCHANGED << sendVars, taskVars >>

\* The derived Deserialize of InitPaymentRes matches the keys of a response
\* against one name for each field.
ExpectKeys ==
    /\ op' = "expect"
    /\ input' = [type |-> "InitPaymentRes", json |-> [t |-> "struct"]]
    /\ output' = TypeOk(KeysOf("InitPaymentRes"))
    /\ UNCHANGED << sendVars, taskVars >>

\* ------------------------------------------------------------------------
\* Serialization of the model types (derived Serialize, serde_json)
\* ------------------------------------------------------------------------

Digit == << "0", "1", "2", "3", "4", "5", "6", "7", "8", "9" >>

\* The decimal digits of a number below 10^9, as serde_json writes an
\* integer.
RECURSIVE FormatDigits(_)
FormatDigits(n) ==
    IF n < 10 THEN Digit[n + 1]
    ELSE FormatDigits(n \div 10) \o Digit[(n % 10) + 1]

\* The low nine digits of a number of more than nine digits.
LowNine(n) ==
    SubSeq("000000000", 1, 9 - Len(FormatDigits(n))) \o FormatDigits(n)

\* The JSON text of the integer hi * 10^9 + n.
FormatNumber(v) ==
    IF v.hi > 0 THEN FormatDigits(v.hi) \o LowNine(v.n) ELSE FormatDigits(v.n)

DigitValue(c) == (CHOOSE i \in 1..Len(Digit) : Digit[i] = c) - 1

RECURSIVE ParseDigits(_)
ParseDigits(str) ==
    IF str = "" THEN 0
    ELSE 10 * ParseDigits(SubSeq(str, 1, Len(str) - 1))
            + DigitValue(SubSeq(str, Len(str), Len(str)))

\* The JSON number a text of decimal digits is read as.
ParseNumber(str) ==
    IF Len(str) <= 9 THEN JNum(ParseDigits(str))
    ELSE JBig(ParseDigits(SubSeq(str, 1, Len(str) - 9)),
              ParseDigits(SubSeq(str, Len(str) - 8, Len(str))))

\* Serialize of Amount(NonZeroU32), Quantity(NonZeroU16): the number in
\* decimal, which a reader of the text takes as a JSON number.
SerializeNumber(v) == ParseNumber(FormatNumber(v))

\* The unit variants of the enums, in declaration order.  MeasurementUnit is
\* renamed variant by variant to unit names in Cyrillic, written here in
\* Latin letters.
VariantIdents ==
    [ Tax |-> << "None", "Vat0", "Vat5", "Vat7", "Vat10", "Vat20", "Vat22",
                 "Vat105", "Vat107", "Vat110", "Vat120", "Vat122" >>,
      Taxation |-> << "Osn", "UsnIncome", "UsnIncomeOutcome", "Esn", "Patent" >>,
      FfdVersion |-> << "V12", "V105" >>,
      MeasurementUnit |->
          << "Piece", "Gram", "Kilogram", "Ton", "Centimeter", "Decimeter",
             "Meter", "SquareCentimeter", "SquareDecimeter", "SquareMeter",
             "Milliliter", "Liter", "CubicMeter", "KilowattHour", "Gigacalorie",
             "Day", "DayAlt", "Hour", "Minute", "Second", "Kilobyte",
             "Megabyte", "Gigabyte", "Terabyte", "Other" >> ]

\* #[serde(rename = "...")] of each variant, in the same order.
VariantRename ==
    [ FfdVersion |-> << "1.2", "1.05" >>,
      MeasurementUnit |->
          << "sht", "g", "kg", "t", "sm", "dm", "m", "sm2", "dm2", "m2", "ml",
             "l", "m3", "kVt*ch", "Gkal", "sut", "dn", "ch", "min", "s",
             "Kbajt", "Mbajt", "Gbajt", "Tbajt", "-" >> ]

\* char::to_ascii_lowercase
ToAsciiLowercase(c) ==
    IF \E i \in 1..Len(UpperCase) : UpperCase[i] = c
    THEN LowerCase[CHOOSE i \in 1..Len(UpperCase) : UpperCase[i] = c]
    ELSE c

\* rename_all = "lowercase" applied to a variant name.
RECURSIVE Lowercase(_)
Lowercase(variant) ==
    IF variant = "" THEN ""
    ELSE ToAsciiLowercase(SubSeq(variant, 1, 1))
            \o Lowercase(SubSeq(variant, 2, Len(variant)))

\* The name the i-th variant of an enum has in JSON.
WireName(t, i) ==
    IF t \in DOMAIN VariantRename THEN VariantRename[t][i]
    ELSE Lowercase(VariantIdents[t][i])

\* Serialize of a unit variant: its name as a JSON string.
SerializeVariant(t, variant) ==
    JStr(WireName(t, CHOOSE i \in 1..Len(VariantIdents[t]) : VariantIdents[t][i] = variant))

\* A Deserialize that matches the names of the variants as declared,
\* ignoring the renames.
DeserializeVariantUnrenamed(t, v) ==
    IF v.t # "string"
    THEN TypeErr("serde", "invalid type: " \o v.t \o ", expected variant identifier")
    ELSE IF \E i \in 1..Len(VariantIdents[t]) : VariantIdents[t][i] = v.s
    THEN TypeOk(v.s)
    ELSE TypeErr("serde", "unknown variant '" \o v.s \o "'")

\* Deserialize of a unit-variant enum: the first variant whose JSON name is
\* the string.
DeserializeVariant(t, v) ==
    LET matching == { i \in 1..Len(VariantIdents[t]) : WireName(t, i) = v.s }
    IN  IF v.t # "string"
        THEN TypeErr("serde", "invalid type: " \o v.t \o ", expected variant identifier")
        ELSE IF matching = {}
        THEN TypeErr("serde", "unknown variant '" \o v.s \o "'")
        ELSE TypeOk(VariantIdents[t][CHOOSE i \in matching : \A j \in matching : i <= j])

\* JSON values that hold other values.
JObject(members) == [t |-> "object", members |-> members]
JArray(items) == [t |-> "array", items |-> items]

\* The value under a key of an object, Absent when the key is not there.
Lookup(members, key) ==
    IF \E i \in 1..Len(members) : members[i].k = key
    THEN members[CHOOSE i \in 1..Len(members) :
                    /\ members[i].k = key
                    /\ \A j \in 1..(i - 1) : members[j].k # key].v
    ELSE Absent

\* An amount of the reduced structs as the number pair of an Amount.
AmountOf(x) == [hi |-> 0, n |-> x]

\* Serialize of Option<Cash>, ...: None is written as null.
SerializeOption(x) == IF x = None THEN JNull ELSE SerializeNumber(AmountOf(x))

\* Deserialize of Option<Cash>, ...: null and a key that is not there give
\* None, anything else goes to Amount.
DeserializeOption(v) ==
    IF v.t \in { "null", "absent" } THEN TypeOk(None)
    ELSE IF DeserializeType("Amount", v).ok THEN TypeOk(v.n)
    ELSE TypeErr("serde", DeserializeType("Amount", v).message)

\* Serialize of Payments: one member for each field, in declaration order.
SerializePayments(p) ==
    LET fields == Declarations.Payments.fields
    IN  JObject([ i \in 1..Len(fields) |->
                    Member(KeyOf("Payments", fields[i]),
                           IF fields[i].name = "electronic"
                           THEN SerializeNumber(AmountOf(p.electronic))
                           ELSE SerializeOption(p[fields[i].name])) ])

\* Deserialize of Payments.
DeserializePayments(v) ==
    IF v.t # "object" THEN TypeErr("serde", "invalid type: " \o v.t \o ", expected struct Payments")
    ELSE
    LET at(name) == Lookup(v.members, KeyOf("Payments", Field(name)))
        optional == { "cash", "advance_payment", "credit", "provision" }
    IN  IF at("electronic").t = "absent"
        THEN TypeErr("serde", "missing field '" \o KeyOf("Payments", Field("electronic")) \o "'")
        ELSE IF ~DeserializeType("Amount", at("electronic")).ok
        THEN TypeErr("serde", DeserializeType("Amount", at("electronic")).message)
        ELSE IF \E name \in optional : ~DeserializeOption(at(name)).ok
        THEN TypeErr("serde", "invalid value, expected a nonzero u32")
        ELSE TypeOk(PaymentsOf(at("electronic").n,
                               DeserializeOption(at("cash")).value,
                               DeserializeOption(at("advance_payment")).value,
                               DeserializeOption(at("credit")).value,
                               DeserializeOption(at("provision")).value))

\* A Receipt with its variant: the variant, the FfdVersion and the Taxation
\* it holds, the amounts of its items and its Payments.
ReceiptValue(variant, version, taxation, items, payments) ==
    [ variant |-> variant, version |-> version, taxation |-> taxation,
      items |-> items, payments |-> payments ]

ReceiptVariants == { "FFD105", "FFD12" }

\* The field that holds the FfdVersion in each variant, as declared.
VersionField(variant) == IF variant = "FFD105" THEN "ffd_version" ELSE "ffd_vesrion"

\* The declaration of the fields of a variant.
VariantDeclaration(variant) == IF variant = "FFD105" THEN "ReceiptFFD105" ELSE "ReceiptFFD12"

\* Serialize of Receipt: an object with the name of the variant as its one
\* key (rename_all = "PascalCase" leaves FFD105 and FFD12 as they are) and
\* the fields of the variant under it.
SerializeReceipt(r) ==
    LET d == VariantDeclaration(r.variant)
    IN  JObject(<< Member(r.variant,
            JObject(<< Member(KeyOf(d, Field("items")),
                              JArray([ i \in 1..Len(r.items) |->
                                        SerializeNumber(AmountOf(r.items[i])) ])),
                       Member(KeyOf(d, Field(VersionField(r.variant))),
                              SerializeVariant("FfdVersion", r.version)),
                       Member(KeyOf(d, Field("taxation")),
                              SerializeVariant("Taxation", r.taxation)),
                       Member(KeyOf(d, Field("payments")),
                              SerializePayments(r.payments)) >>)) >>)

\* Deserialize of Receipt: the one key names the variant, and each field of
\* that variant is decoded by its own type; no field is compared with the
\* variant or with another field.
DeserializeReceiptVariant(v) ==
    IF v.t # "object" \/ Len(v.members) # 1
    THEN TypeErr("serde", "expected a map with a single key")
    ELSE IF v.members[1].k \notin ReceiptVariants
    THEN TypeErr("serde", "unknown variant '" \o v.members[1].k \o "'")
    ELSE IF v.members[1].v.t # "object"
    THEN TypeErr("serde", "invalid type, expected struct variant")
    ELSE
    LET variant == v.members[1].k
        d == VariantDeclaration(variant)
        at(name) == Lookup(v.members[1].v.members, KeyOf(d, Field(name)))
        items == at("items")
        version == DeserializeVariant("FfdVersion", at(VersionField(variant)))
        taxation == DeserializeVariant("Taxation", at("taxation"))
        payments == DeserializePayments(at("payments"))
    IN  IF items.t = "absent" THEN TypeErr("serde", "missing field 'items'")
        ELSE IF items.t # "array" THEN TypeErr("serde", "invalid type, expected a sequence")
        ELSE IF \E i \in 1..Len(items.items) : ~DeserializeType("Amount", items.items[i]).ok
        THEN TypeErr("serde", "invalid value, expected a nonzero u32")
        ELSE IF at(VersionField(variant)).t = "absent"
        THEN TypeErr("serde", "missing field '" \o VersionField(variant) \o "'")
        ELSE IF ~version.ok THEN version
        ELSE IF at("taxation").t = "absent" THEN TypeErr("serde", "missing field 'taxation'")
        ELSE IF ~taxation.ok THEN taxation
        ELSE IF at("payments").t = "absent" THEN TypeErr("serde", "missing field 'payments'")
        ELSE IF ~payments.ok THEN payments
        ELSE TypeOk(ReceiptValue(variant, version.value, taxation.value,
                                 [ i \in 1..Len(items.items) |-> items.items[i].n ],
                                 payments.value))

\* The types that are written and read back, and values of each.
RoundTripTypes ==
    { "Amount", "Quantity", "Tax", "FfdVersion", "MeasurementUnit", "Payments",
      "Receipt" }

PaymentsValues ==
    { PaymentsOf(140000, None, None, None, None),
      PaymentsOf(100000, 30000, None, 10000, None),
      PaymentsOf(1, 2, 3, 4, 5) }

ReceiptValues ==
    { ReceiptValue(variant, version, "Osn", <<10000, 40000, 90000>>,
                   PaymentsOf(140000, None, None, None, None)) :
        variant \in ReceiptVariants, version \in { "V12", "V105" } }
      \cup { ReceiptValue("FFD12", "V12", "UsnIncomeOutcome", <<>>,
                          PaymentsOf(100000, 30000, None, 10000, None)) }

ValuesOf(t) ==
    CASE t = "Amount" ->
            { AmountOf(1), AmountOf(140000), AmountOf(999999999),
              [hi |-> 1, n |-> 0], [hi |-> 4, n |-> 1],
              [hi |-> U32MaxHi, n |-> U32MaxLo] }
      [] t = "Quantity" -> { AmountOf(1), AmountOf(10), AmountOf(U16Max) }
      [] t = "Payments" -> PaymentsValues
      [] t = "Receipt" -> ReceiptValues
      [] OTHER -> { VariantIdents[t][i] : i \in 1..Len(VariantIdents[t]) }

\* The derived Serialize of each type.
SerializeValue(t, v) ==
    CASE t \in { "Amount", "Quantity" } -> SerializeNumber(v)
      [] t = "Payments" -> SerializePayments(v)
      [] t = "Receipt" -> SerializeReceipt(v)
      [] OTHER -> SerializeVariant(t, v)

\* The derived Deserialize of each type.
DeserializeValue(t, json) ==
    CASE t \in { "Amount", "Quantity" } -> DeserializeType(t, json)
      [] t = "Payments" -> DeserializePayments(json)
      [] t = "Receipt" -> DeserializeReceiptVariant(json)
      [] OTHER -> DeserializeVariant(t, json)

\* JSON a Receipt is decoded from: what Serialize writes, an unknown
\* variant, and null.
ReceiptJsonInputs ==
    { SerializeReceipt(r) : r \in ReceiptValues }
        \cup { JObject(<< Member("FFD11", JObject(<<>>)) >>), JNull }

\* A value is serialized and the JSON is deserialized as the same type.
RoundTrip(t, v) ==
    /\ op' = "roundtrip"
    /\ input' = [type |-> t, json |-> SerializeValue(t, v), value |-> v]
    /\ output' = DeserializeValue(t, SerializeValue(t, v))
    /\ UNCHANGED << sendVars, taskVars >>

\* A Receipt is written as an enum literal: any FfdVersion goes into the
\* field of either variant.
BuildReceipt(r) ==
    /\ op' = "construct"
    /\ input' = [type |-> "Receipt", json |-> [t |-> "literal", receipt |-> r]]
    /\ output' = BuildStruct(r)
    /\ UNCHANGED << sendVars, taskVars >>

\* A Receipt with its variant is decoded from JSON.
DecodeReceiptVariant(json) ==
    /\ op' = "deserialize"
    /\ input' = [type |-> "Receipt", json |-> json]
    /\ output' = DeserializeReceiptVariant(json)
    /\ UNCHANGED << sendVars, taskVars >>

\* ------------------------------------------------------------------------
\* Configuration from the environment (client.rs)
\* ------------------------------------------------------------------------

\* An environment variable as std::env::var sees it: not set, set to text
\* that is not Unicode, or set to a value.
EnvVar(state, value) == [t |-> "env", state |-> state, value |-> value]

\* std::env::var(..).ok(): the value of a variable that is set to Unicode
\* text, nothing otherwise.
VarOk(var) == var.state = "set"

\* The value of TERMINAL_KEY is kept as its characters, each by the number
\* of bytes it takes in UTF-8 (1 for ASCII, 2 for a Cyrillic letter).
Chars(n, width) == [ i \in 1..n |-> width ]

\* String::len: the length in bytes.
RECURSIVE ByteLen(_)
ByteLen(chars) == IF chars = <<>> THEN 0 ELSE Head(chars) + ByteLen(Tail(chars))

\* TerminalKey::from_env.
TerminalKeyFromEnv(var) ==
    IF VarOk(var) /\ ByteLen(var.value) <= DocumentedMaxLen.TerminalKey
    THEN TypeOk(var.value)
    ELSE TypeErr("Config", "TERMINAL_KEY variable is missing")

TerminalKeyVars ==
    { EnvVar("unset", <<>>), EnvVar("not_unicode", <<>>) }
        \cup { EnvVar("set", Chars(n, 1)) :
                 n \in { 0, 9 } \cup
                       ((DocumentedMaxLen.TerminalKey - 1)
                            .. (DocumentedMaxLen.TerminalKey + MaxOver)) }
        \cup { EnvVar("set", Chars(n, 2)) : n \in { 10, 11, 20 } }

\* PRODUCTION_BASE, TEST_BASE
ProductionBase == "https://securepay.tinkoff/v2/Init"
TestBase == "https://rest-api-test.tinkoff/v2/Init"

\* A From<&str> that takes the name in any case.
RECURSIVE Uppercase(_)
Uppercase(str) ==
    IF str = "" THEN ""
    ELSE ToAsciiUppercase(SubSeq(str, 1, 1)) \o Uppercase(SubSeq(str, 2, Len(str)))

EnvironmentFromAnyCase(str) ==
    IF Uppercase(str) = "PRODUCTION" THEN "Production" ELSE "Test"

\* impl From<&str> for Environment
EnvironmentFrom(str) ==
    CASE str = "PRODUCTION" -> "Production"
      [] str = "TEST" -> "Test"
      [] OTHER -> "Test"

\* Environment::base_url
BaseUrl(env) == IF env = "Production" THEN ProductionBase ELSE TestBase

\* Client::new: TOCHKA_ENV, "Test" when std::env::var gives an error, into
\* an Environment; the reqwest client may fail to build.
NewClient(var, built) ==
    LET env == EnvironmentFrom(IF VarOk(var) THEN var.value ELSE "Test")
    IN  IF built THEN TypeOk([env |-> env, base_url |-> BaseUrl(env)])
        ELSE TypeErr("Config", "builder error")

EnvironmentVars ==
    { EnvVar("unset", ""), EnvVar("not_unicode", "") }
        \cup { EnvVar("set", str) :
                 str \in { "PRODUCTION", "TEST", "Test", "production", "Production",
                           "", "PROD", " PRODUCTION", "PRODUCTION ", "staging" } }

\* TerminalKey::from_env is called.
ReadTerminalKey(var) ==
    /\ op' = "from_env"
    /\ input' = [type |-> "TerminalKey", json |-> var]
    /\ output' = TerminalKeyFromEnv(var)
    /\ UNCHANGED << sendVars, taskVars >>

\* Client::new is called.
CreateClient(var, built) ==
    /\ op' = "new"
    /\ input' = [type |-> "Client", json |-> var]
    /\ output' = NewClient(var, built)
    /\ UNCHANGED << sendVars, taskVars >>

TypesNext ==
    \/ \E var \in TerminalKeyVars : ReadTerminalKey(var)
    \/ \E var \in EnvironmentVars : \E built \in BOOLEAN : CreateClient(var, built)
    \/ \E t \in RoundTripTypes : \E v \in ValuesOf(t) : RoundTrip(t, v)
    \/ \E r \in ReceiptValues : BuildReceipt(r)
    \/ \E json \in ReceiptJsonInputs : DecodeReceiptVariant(json)
    \/ \E d \in RequestDeclarations : SerializeStruct(d)
    \/ ExpectKeys
    \/ \E t \in ValueTypes : \E v \in InputsOf(t) : DecodeValue(t, v)
    \/ \E t \in ValueTypes : \E v \in InputsOf(t) : ConstructValue(t, v)
    \/ \E amount \in { 100000, 140000 } : \E shops \in ShopLists :
         \E receipt \in Receipts \cup { NoReceipt } :
            BuildRequest(amount, shops, receipt)
    \/ \E r \in Receipts \cup { ReceiptZeroItem } : DecodeReceipt(r)
    \/ \E numerator \in FractionInputs : \E denominator \in FractionInputs :
         DecodeMarkQuantity(numerator, denominator)
    \/ \E numerator \in { JNum(0), JNum(1), JNum(2) } :
         \E denominator \in { JNum(0), JNum(1), JNum(2) } :
            BuildMarkQuantity(numerator, denominator)

\* The model types on their own: no request is under way.
TypesSpec == Init /\ [][TypesNext]_vars

\* ------------------------------------------------------------------------
\* Concurrent invocations of send on one Client
\* ------------------------------------------------------------------------

\* What the tasks send and what comes back.
TaskRequests ==
    { Builder(TRUE, TRUE, PayloadScenario), Builder(FALSE, TRUE, PayloadScenario) }
TaskStatuses == { 200, 401, 500 }
TaskBodies == { BodyApproved, BodyHtml }

\* send from the status match to its end, which runs without an await.
Finish(s, b) ==
    IF ClassifyResponse(s, b).kind # "Pending" THEN ClassifyResponse(s, b)
    ELSE DecodeBody(b)

\* A task calls send: request_snapshot, bearer_auth with the credential of
\* the shared Client, send(), up to the first await.
TaskBegin(i, r) ==
    /\ tasks[i].pc = "Idle"
    /\ tasks' = [tasks EXCEPT ![i] =
          [@ EXCEPT !.pc = IF r.built THEN "Waiting" ELSE "PendingErr",
                    !.req = r,
                    !.snapshot = Snapshot(r),
                    !.prepared = BearerAuth(r, client.token)]]
    /\ UNCHANGED << sendVars, typeVars >>

\* The future of a builder that holds an error resolves to that error.
TaskSendRejected(i) ==
    /\ tasks[i].pc = "PendingErr"
    /\ tasks' = [tasks EXCEPT ![i] =
          [@ EXCEPT !.pc = "Done",
                    !.failure = [phase |-> "PendingErr", err |-> TransportError("builder")],
                    !.result = MapSendError(TransportError("builder"))]]
    /\ UNCHANGED << sendVars, typeVars >>

\* send().await of the task yields an error.
TaskSendFail(i, e) ==
    /\ tasks[i].pc = "Waiting"
    /\ tasks' = [tasks EXCEPT ![i] =
          [@ EXCEPT !.pc = "Done",
                    !.failure = [phase |-> "Waiting", err |-> e],
                    !.result = MapSendError(e)]]
    /\ UNCHANGED << sendVars, typeVars >>

\* The response head of the task arrives; text() is awaited next.
TaskReceiveHead(i, s) ==
    /\ tasks[i].pc = "Waiting"
    /\ tasks' = [tasks EXCEPT ![i] = [@ EXCEPT !.pc = "ReadingBody", !.status = s]]
    /\ UNCHANGED << sendVars, typeVars >>

\* A body kept in one place for all invocations: the body that arrives for
\* one task ends every invocation that is waiting for a body.
TaskReadBodyShared(i, b) ==
    /\ tasks[i].pc = "ReadingBody"
    /\ tasks' = [ j \in TaskIds |->
          IF tasks[j].pc = "ReadingBody"
          THEN [tasks[j] EXCEPT !.pc = "Done",
                                !.gatewayBody = IF j = i THEN b ELSE @,
                                !.body = b,
                                !.result = Finish(tasks[j].status, b)]
          ELSE tasks[j] ]
    /\ UNCHANGED << sendVars, typeVars >>

\* text().await of the task yields the body; the task runs to its end.
TaskReadBody(i, b) ==
    /\ tasks[i].pc = "ReadingBody"
    /\ tasks' = [tasks EXCEPT ![i] =
          [@ EXCEPT !.pc = "Done",
                    !.gatewayBody = b,
                    !.body = b,
                    !.result = Finish(tasks[i].status, b)]]
    /\ UNCHANGED << sendVars, typeVars >>

\* text().await of the task yields an error; unwrap_or_default() gives the
\* empty string and the task runs to its end.
TaskReadBodyFail(i, b, e) ==
    /\ tasks[i].pc = "ReadingBody"
    /\ tasks' = [tasks EXCEPT ![i] =
          [@ EXCEPT !.pc = "Done",
                    !.gatewayBody = b,
                    !.body = EmptyBody,
                    !.failure = [phase |-> "ReadingBody", err |-> e],
                    !.result = Finish(tasks[i].status, EmptyBody)]]
    /\ UNCHANGED << sendVars, typeVars >>

ConcurrentNext ==
    \/ \E i \in TaskIds : \E r \in TaskRequests : TaskBegin(i, r)
    \/ \E i \in TaskIds : TaskSendRejected(i)
    \/ \E i \in TaskIds : \E e \in FailuresAt("Waiting") : TaskSendFail(i, e)
    \/ \E i \in TaskIds : \E s \in TaskStatuses : TaskReceiveHead(i, s)
    \/ \E i \in TaskIds : \E b \in TaskBodies : TaskReadBody(i, b)
    \/ \E i \in TaskIds : \E b \in TaskBodies :
         \E e \in { TransportError("reset") } : TaskReadBodyFail(i, b, e)

\* Tasks that share one Client, each calling send once, in any order.
ConcurrentSpec == Init /\ [][ConcurrentNext]_vars

\* ------------------------------------------------------------------------
\* Properties of the model types
\* ------------------------------------------------------------------------

\* A value type was given a raw value, by decoding or in code.
Obtained(types) ==
    /\ op \in { "deserialize", "construct" }
    /\ input.type \in types

\* The raw string is beyond what the type documents.
OutOfBounds(t, str) ==
    CASE t \in DOMAIN DocumentedMaxLen -> Len(str) > DocumentedMaxLen[t]
      [] t \in DOMAIN DocumentedSet -> str \notin DocumentedSet[t]
      [] OTHER -> str \notin EnumVariants[t]

\* C15: every way of obtaining a value of a validated type from a raw input
\* beyond the field's length or enumerated set fails with a Validation error
\* naming the field; no value holds out-of-bounds content.
C15_OutOfBoundsRejected ==
    (Obtained(StringTypes \cup EnumTypes) /\ input.json.t = "string"
        /\ OutOfBounds(input.type, input.json.s)) =>
            /\ ~output.ok
            /\ output.error = "Validation"

\* The ceilings the doc comments state for Amount and Quantity.
MaxAmountDigits == 10
MaxQuantityChars == 8

\* The number of decimal digits of a number below 10^9.
DigitsOf(n) ==
    CASE n < 10 -> 1
      [] n < 100 -> 2
      [] n < 1000 -> 3
      [] n < 10000 -> 4
      [] n < 100000 -> 5
      [] n < 1000000 -> 6
      [] n < 10000000 -> 7
      [] n < 100000000 -> 8
      [] OTHER -> 9

\* The number of decimal digits of a non-negative number hi * 10^9 + n.
Digits(v) == IF v.hi > 0 THEN 9 + DigitsOf(v.hi) ELSE DigitsOf(v.n)

MaxDigits(t) == IF t = "Amount" THEN MaxAmountDigits ELSE MaxQuantityChars

\* C19: every Amount is strictly positive with at most 10 decimal digits and
\* every Quantity is non-zero with at most 8 characters; zero, negative and
\* over-range inputs are rejected at construction and at deserialization,
\* and an accepted input is held as it was given.
C19_AmountQuantityRange ==
    (Obtained({ "Amount", "Quantity" }) /\ input.json.t = "number") =>
        /\ output.ok =>
              /\ output.value = NumberOf(input.json)
              /\ output.value.hi >= 0 /\ output.value.n >= 0
              /\ ~IsZero(output.value)
              /\ Digits(output.value) <= MaxDigits(input.type)
        /\ ( \/ IsZero(input.json)
             \/ input.json.n < 0
             \/ Digits(input.json) > MaxDigits(input.type) ) => ~output.ok

C19_Witness ==
    /\ op = "deserialize"
    /\ input = [type |-> "Amount", json |-> JBig(10, 0)]
    /\ ~output.ok

\* C16: a request with a non-empty shops list holds shop amounts that add up
\* to its top-level amount; one whose shop amounts do not add up cannot be
\* built.
C16_ShopsSumToAmount ==
    (Obtained({ "InitPaymentReq" }) /\ input.json.shops # <<>>) =>
        /\ output.ok => SumOf(output.value.shops) = output.value.amount
        /\ SumOf(input.json.shops) # input.json.amount => ~output.ok

ItemsTotal(r) == SumOf(r.items)

\* electronic + cash + advance + credit + provision; a component that is
\* None adds nothing.
PaymentsTotal(r) ==
    r.payments.electronic + r.payments.cash + r.payments.advance_payment
        + r.payments.credit + r.payments.provision

\* C17: in a request that carries a Receipt, the item amounts add up to the
\* Payments components and Payments.electronic is the request Amount; a
\* receipt decoded on its own has item amounts that add up to its Payments.
C17_ReceiptTotals ==
    /\ (Obtained({ "InitPaymentReq" }) /\ input.json.receipt.present /\ output.ok) =>
          /\ ItemsTotal(output.value.receipt) = PaymentsTotal(output.value.receipt)
          /\ output.value.receipt.payments.electronic = output.value.amount
    /\ (Obtained({ "Receipt" }) /\ output.ok) =>
          ItemsTotal(output.value) = PaymentsTotal(output.value)

Less(a, b) == a.hi < b.hi \/ (a.hi = b.hi /\ a.n < b.n)

\* C18: every MarkQuantity has a numerator strictly below its denominator;
\* building or decoding one with numerator >= denominator fails with a
\* Validation error.
C18_NumeratorBelowDenominator ==
    Obtained({ "MarkQuantity" }) =>
        /\ output.ok => Less(output.value.numerator, output.value.denominator)
        /\ ( /\ input.json.numerator.t = "number"
             /\ input.json.denominator.t = "number"
             /\ ~Less(input.json.numerator, input.json.denominator) ) =>
                 /\ ~output.ok
                 /\ output.error = "Validation"
\* An upper-case letter first and no underscore.
GatewayForm(key) ==
    /\ \E i \in 1..Len(UpperCase) : UpperCase[i] = SubSeq(key, 1, 1)
    /\ \A i \in 1..Len(key) : SubSeq(key, i, i) # "_"

\* C20: every JSON key written for an InitPaymentReq, at every nesting
\* level, is in the leading-capital word-concatenated form, and the redirect
\* URL of a response is read from the key PaymentURL.
C20_GatewayFieldNames ==
    /\ op = "serialize" => \A key \in output.value : GatewayForm(key)
    /\ op = "expect" =>
          /\ "PaymentURL" \in output.value
          /\ output.value = ResFieldNames
\* C21: a valid value of a type that is both serializable and
\* deserializable is read back from its own JSON as an equal value.
C21_RoundTrip ==
    op = "roundtrip" =>
        /\ output.ok
        /\ output.value = input.value

C21_Witness ==
    /\ op = "roundtrip"
    /\ input.type = "Receipt"
    /\ input.value.variant = "FFD12"
    /\ output.ok

\* The FfdVersion a variant of Receipt stands for.
VersionOfVariant(variant) == IF variant = "FFD105" THEN "V105" ELSE "V12"

C23_TerminalKeyFromEnv ==
    op = "from_env" =>
        /\ output.ok <=>
              ( /\ input.json.state = "set"
                /\ Len(input.json.value) <= DocumentedMaxLen.TerminalKey )
        /\ output.ok => output.value = input.json.value
        /\ ~output.ok => ( output.error = "Config" /\ output.value = NoValue )

\* C24: the production endpoint is selected for the exact string
\* "PRODUCTION" only; any other string and an unset variable give
\* Environment::Test and the test endpoint.
C24_ProductionOnlyExact ==
    (op = "new" /\ output.ok) =>
        IF input.json.state = "set" /\ input.json.value = "PRODUCTION"
        THEN output.value.env = "Production" /\ output.value.base_url = ProductionBase
        ELSE output.value.env = "Test" /\ output.value.base_url = TestBase

C24_Witness ==
    /\ op = "new"
    /\ input.json = EnvVar("set", "production")
    /\ output.ok
    /\ output.value.base_url = TestBase
\* What an invocation returns given its own request and its own response
\* alone.
OwnResult(task) ==
    CASE ~task.req.built -> MapSendError(TransportError("builder"))
      [] task.failure.phase = "Waiting" -> MapSendError(task.failure.err)
      [] task.failure.phase = "ReadingBody" -> Finish(task.status, EmptyBody)
      [] OTHER -> Finish(task.status, task.gatewayBody)

\* C22: under every interleaving of the invocations on one Client, a step
\* of one invocation leaves every other invocation and the Client as they
\* were, and what an invocation returns follows from its own request and
\* its own response.
C22_Independent ==
    [][ /\ client' = client
        /\ \E i \in TaskIds :
              /\ \A j \in TaskIds \ { i } : tasks'[j] = tasks[j]
              /\ tasks'[i].pc = "Done" => tasks'[i].result = OwnResult(tasks'[i])
      ]_vars

C22_Witness ==
    /\ tasks[1].pc = "ReadingBody"
    /\ tasks[1].status = 500
    /\ tasks[2].pc = "Done"
    /\ tasks[2].result.kind = "Ok"
====
